---- MODULE Spec2Model ----
(***************************************************************************)
(* Dry-ve: the route weather-scoring engine and the App component that     *)
(* drives it.                                                              *)
(*                                                                         *)
(* Units.  Distances are integers in tenths of a kilometre (route.distance *)
(* is produced with one decimal, api.ts:118).  Paths lie on one meridian,  *)
(* where the haversine distance of two points is R * |dLat| * pi / 180;    *)
(* latitudes are counted in the unit of arc that is 0.1 km long, so the    *)
(* distance of two path points is |lat2 - lat1| tenths of a kilometre.     *)
(* Floating point comparisons are rendered as exact rational comparisons.  *)
(* The score is kept in tenths (10 x score).  Times are in milliseconds.   *)
(* An object reference into route.path is the index of the element.        *)
(***************************************************************************)
EXTENDS Integers, Sequences, FiniteSets, TLC

\* ------------------------------------------------------------------ bounds

MaxRoutes == 2      \* routes returned by one routing call (App specification)
MaxClock == 2       \* clock ticks the App specification lets pass
MaxPathLen == 5     \* points of a path handed to the sampler
MaxLat == 2         \* latitudes 0..MaxLat of the sampler's paths
MaxAnalysisPoints == 3  \* points of the routes whose analysis is followed
MaxColorPathLen == 4    \* points of a path handed to the colorizer
MaxCalls == 3           \* getForecast calls of the cache specification
MaxCacheTicks == 2      \* clock ticks the cache specification lets pass

\* ------------------------------------------------------- program constants

SAMPLE_INTERVAL_KM == 5
MAX_SAMPLES == 15
MIN_SAMPLES == 3
RATE_LIMIT_MS == 2000
CACHE_TTL_MS == 5 * 60 * 1000

Null == "null"

\* startPoint / endPoint: null
NoPoint == [none |-> TRUE]

\* States of a promise that carries no value (yet)
Pending == [state |-> "pending"]
Rejected == [state |-> "rejected"]
Fulfilled(v) == [state |-> "fulfilled", value |-> v]

\* ------------------------------------------------------------------ helpers

Min(a, b) == IF a < b THEN a ELSE b
Max(a, b) == IF a > b THEN a ELSE b
Abs(a) == IF a < 0 THEN 0 - a ELSE a

\* Math.ceil(num / den) for num >= 0, den > 0
MathCeilDiv(num, den) == (num + den - 1) \div den

\* Math.round(num / den) for num >= 0, den > 0: halves are rounded up
MathRoundDiv(num, den) == (2 * num + den) \div (2 * den)

EmptyMap == [x \in {} |-> Null]

\* `route-${index}` of DirectionsAPI.getRoutes, index counted from 0
RouteIdNames == <<"route-0", "route-1", "route-2", "route-3">>
RouteId(i) == RouteIdNames[i]

Point(lat, lng) == [lat |-> lat, lng |-> lng]

\* ------------------------------------------------------------------ sampler

\* Great-circle distance of two points of one meridian, in tenths of a km
haversineDistance(lat1, lng1, lat2, lng2) == Abs(lat2 - lat1)

\* distance is in tenths of a km, hence the factor 10 on the interval
targetSamples(distance) ==
    Min(MAX_SAMPLES,
        Max(MIN_SAMPLES, MathCeilDiv(distance, SAMPLE_INTERVAL_KM * 10)))

\* Variant: nextThreshold is not advanced after a sample
RECURSIVE SampleLoopSameThreshold(_, _, _, _, _, _, _)
SampleLoopSameThreshold(path, distance, target, i, acc, k, samples) ==
    IF i > Len(path)
    THEN samples
    ELSE LET accumulatedDistance ==
                 acc + haversineDistance(path[i - 1].lat, path[i - 1].lng,
                                         path[i].lat, path[i].lng)
         IN  IF accumulatedDistance * (target - 1) >= k * distance
             THEN SampleLoopSameThreshold(path, distance, target, i + 1,
                             accumulatedDistance, k, Append(samples, i))
             ELSE SampleLoopSameThreshold(path, distance, target, i + 1,
                             accumulatedDistance, k, samples)

\* The for loop of the long-path branch.  i is the (1-based) index of curr,
\* acc is accumulatedDistance before the step, nextThreshold is k intervals
\* of distance / (target - 1), samples are the indices pushed so far.
\* accumulatedDistance >= nextThreshold is compared after multiplying both
\* sides by target - 1.
RECURSIVE SampleLoop(_, _, _, _, _, _, _)
SampleLoop(path, distance, target, i, acc, k, samples) ==
    IF i > Len(path)
    THEN samples
    ELSE LET accumulatedDistance ==
                 acc + haversineDistance(path[i - 1].lat, path[i - 1].lng,
                                         path[i].lat, path[i].lng)
         IN  IF accumulatedDistance * (target - 1) >= k * distance
             THEN SampleLoop(path, distance, target, i + 1,
                             accumulatedDistance, k + 1, Append(samples, i))
             ELSE SampleLoop(path, distance, target, i + 1,
                             accumulatedDistance, k, samples)

\* Variant: the end point is never forced in
ForceEndPointNever(samples, lastIndex) == samples

\* Variant: the end point is pushed without looking at the last sample
ForceEndPointAlways(samples, lastIndex) == Append(samples, lastIndex)

\* "Always include end point": lastPoint is pushed unless the last sample is
\* that very object
ForceEndPoint(samples, lastIndex) ==
    IF samples[Len(samples)] # lastIndex
    THEN Append(samples, lastIndex)
    ELSE samples

\* Variant: a path with exactly target points goes to the long-path branch
selectSamplePointsStrict(route) ==
    LET path == route.path
        target == targetSamples(route.distance)
    IN  IF Len(path) < target
        THEN [i \in 1..Len(path) |-> i]
        ELSE ForceEndPoint(
                 SampleLoop(path, route.distance, target, 2, 0, 1, <<1>>),
                 Len(path))

\* selectSamplePoints, as the sequence of path indices of the chosen points
selectSamplePoints(route) ==
    LET path == route.path
        target == targetSamples(route.distance)
    IN  IF Len(path) <= target
        THEN [i \in 1..Len(path) |-> i]
        ELSE ForceEndPoint(
                 SampleLoop(path, route.distance, target, 2, 0, 1, <<1>>),
                 Len(path))

\* ------------------------------------------------------------------- scorer

\* Variant: the thresholds themselves belong to the higher label
getConditionInclusive(probability) ==
    IF probability >= 70 THEN "Storm"
    ELSE IF probability >= 50 THEN "Heavy Rain"
    ELSE IF probability >= 20 THEN "Light Rain"
    ELSE IF probability >= 10 THEN "Cloudy"
    ELSE "Clear"

getCondition(probability) ==
    IF probability > 70 THEN "Storm"
    ELSE IF probability > 50 THEN "Heavy Rain"
    ELSE IF probability > 20 THEN "Light Rain"
    ELSE IF probability > 10 THEN "Cloudy"
    ELSE "Clear"

\* Variant: the average is looked at before the second maximum threshold
getRecommendationAverageFirst(avgRain, maxRain) ==
    IF maxRain > 70 THEN "Stormy! Avoid."
    ELSE IF avgRain > 20 THEN "Might drizzle."
    ELSE IF maxRain > 40 THEN "Rainy sections ahead."
    ELSE IF maxRain < 10 THEN "Dry route!"
    ELSE "Safe to ride"

getRecommendation(avgRain, maxRain) ==
    IF maxRain > 70 THEN "Stormy! Avoid."
    ELSE IF maxRain > 40 THEN "Rainy sections ahead."
    ELSE IF avgRain > 20 THEN "Might drizzle."
    ELSE IF maxRain < 10 THEN "Dry route!"
    ELSE "Safe to ride"

\* The closure given to samplePoints.map, after its await: the try branch
FulfilledPoint(point, rainChance) ==
    [lat |-> point.lat, lng |-> point.lng,
     rainProbability |-> rainChance, condition |-> getCondition(rainChance)]

\* Variant: a failed lookup is recorded as certain rain
CatchPointWet(point) ==
    [lat |-> point.lat, lng |-> point.lng,
     rainProbability |-> 100, condition |-> "Storm"]

\* ... and its catch branch: "Default to clear weather on error"
CatchPoint(point) ==
    [lat |-> point.lat, lng |-> point.lng,
     rainProbability |-> 0, condition |-> "Clear"]

\* Variant: values are collected in the order in which they arrive
SettleAtArrival(promises, i, wp) ==
    LET free == CHOOSE j \in 1..Len(promises) :
                    /\ promises[j] = [state |-> "pending"]
                    /\ \A h \in 1..(j - 1) : promises[h] # [state |-> "pending"]
    IN  [promises EXCEPT ![free] = wp]

\* The promise of sample i settles with value wp: Promise.all keeps every
\* value at the index of its promise
SettleAt(promises, i, wp) == [promises EXCEPT ![i] = wp]

IsFulfilled(p) == p # Pending

\* Variant: the analysis resumes as soon as one promise is fulfilled
SomeFulfilled(promises) ==
    \E i \in 1..Len(promises) : promises[i] # [state |-> "pending"]

\* Promise.all(weatherPromises) resolves once every promise is fulfilled
AllFulfilled(promises) == \A i \in 1..Len(promises) : IsFulfilled(promises[i])

\* ... with the promises' values in index order
PromiseAllValues(promises) == SelectSeq(promises, IsFulfilled)

\* Variant: the maximum is overwritten by every point, without comparison
RECURSIVE StatsLoopLastMax(_, _, _, _)
StatsLoopLastMax(weatherPoints, i, totalRain, maxRain) ==
    IF i > Len(weatherPoints)
    THEN [totalRain |-> totalRain, maxRain |-> maxRain]
    ELSE LET p == weatherPoints[i].rainProbability
         IN  StatsLoopLastMax(weatherPoints, i + 1, totalRain + p, p)

\* "Calculate statistics": the for loop over weatherPoints
RECURSIVE StatsLoop(_, _, _, _)
StatsLoop(weatherPoints, i, totalRain, maxRain) ==
    IF i > Len(weatherPoints)
    THEN [totalRain |-> totalRain, maxRain |-> maxRain]
    ELSE LET p == weatherPoints[i].rainProbability
         IN  StatsLoop(weatherPoints, i + 1, totalRain + p,
                       IF p > maxRain THEN p ELSE maxRain)

\* Variant: the mean is truncated (Math.floor)
averageOfFloor(totalRain, n) == totalRain \div n

\* const avgRain = Math.round(totalRain / weatherPoints.length)
averageOf(totalRain, n) == MathRoundDiv(totalRain, n)

\* Variant: the weights of average and maximum are exchanged
scoreOfSwapped(avgRain, maxRain) == (avgRain * 6) + (maxRain * 4)

\* (avgRain * 0.4) + (maxRain * 0.6), in tenths
scoreOf(avgRain, maxRain) == (avgRain * 4) + (maxRain * 6)

\* The rest of analyzeRouteWeather, from the statistics to the return
BuildRouteWeather(routeId, weatherPoints) ==
    LET stats == StatsLoop(weatherPoints, 1, 0, 0)
        avgRain == averageOf(stats.totalRain, Len(weatherPoints))
        maxRain == stats.maxRain
    IN  [routeId |-> routeId,
         averageRainChance |-> avgRain,
         maxRainChance |-> maxRain,
         points |-> weatherPoints,
         recommendation |-> getRecommendation(avgRain, maxRain),
         score |-> scoreOf(avgRain, maxRain)]

\* ---------------------------------------------------------------- colorizer

RAIN_COLORS ==
    [SAFE |-> "#22c55e", LOW |-> "#84cc16", MODERATE |-> "#eab308",
     UNPLEASANT |-> "#f97316", HEAVY |-> "#ef4444", SEVERE |-> "#7e22ce"]

\* A probability is the fraction num / den, den > 0: probability > t is
\* num > t * den
getSegmentColor(probability) ==
    IF probability.num > 90 * probability.den THEN RAIN_COLORS.SEVERE
    ELSE IF probability.num > 70 * probability.den THEN RAIN_COLORS.HEAVY
    ELSE IF probability.num > 50 * probability.den THEN RAIN_COLORS.UNPLEASANT
    ELSE IF probability.num > 30 * probability.den THEN RAIN_COLORS.MODERATE
    ELSE IF probability.num > 10 * probability.den THEN RAIN_COLORS.LOW
    ELSE RAIN_COLORS.SAFE

\* Math.hypot of the coordinate differences of two points of one meridian
MathHypot(dLat, dLng) == Abs(dLat)

\* "Find distance for each weather sample by walking the route": si is the
\* (1-based) index of the next weather point to match.  Two coordinates of
\* the model that differ do so by more than the tolerance 0.0001.
RECURSIVE SampleDistancesWalk(_, _, _, _, _, _)
SampleDistancesWalk(path, points, i, currentDist, si, sampleDistances) ==
    IF i > Len(path)
    THEN [sampleDistances |-> sampleDistances, currentDist |-> currentDist,
          si |-> si]
    ELSE LET point == path[i]
             lastPoint == IF i = 1 THEN path[1] ELSE path[i - 1]
             dist == currentDist + MathHypot(point.lat - lastPoint.lat,
                                             point.lng - lastPoint.lng)
         IN  IF /\ si <= Len(points)
                /\ points[si].lat = point.lat
                /\ points[si].lng = point.lng
             THEN SampleDistancesWalk(path, points, i + 1, dist, si + 1,
                      Append(sampleDistances,
                             [dist |-> dist, prob |-> points[si].rainProbability]))
             ELSE SampleDistancesWalk(path, points, i + 1, dist, si,
                                      sampleDistances)

\* ... followed by "Ensure first and last are covered if matching failed"
sampleDistancesOf(path, points) ==
    LET w == SampleDistancesWalk(path, points, 1, 0, 1, <<>>)
        covered == IF Len(w.sampleDistances) = 0
                   THEN <<[dist |-> 0, prob |-> points[1].rainProbability]>>
                   ELSE w.sampleDistances
    IN  covered \o
        [k \in 1..(Len(points) - (w.si - 1)) |->
            [dist |-> w.currentDist,
             prob |-> points[w.si - 1 + k].rainProbability]]

\* while (nextSampleIdx < sampleDistances.length - 1 && currentDist > ...)
RECURSIVE AdvanceSample(_, _, _)
AdvanceSample(sampleDistances, nextSampleIdx, currentDist) ==
    IF /\ nextSampleIdx < Len(sampleDistances)
       /\ currentDist > sampleDistances[nextSampleIdx + 1].dist
    THEN AdvanceSample(sampleDistances, nextSampleIdx + 1, currentDist)
    ELSE nextSampleIdx

\* Variant: no interpolation, the previous sample's probability is taken
InterpolatedProbStep(sampleDistances, nextSampleIdx, currentDist) ==
    [num |-> sampleDistances[nextSampleIdx].prob, den |-> 1]

\* Variant: the two probabilities are added where they should be subtracted
InterpolatedProbSum(sampleDistances, nextSampleIdx, currentDist) ==
    LET prev == sampleDistances[nextSampleIdx]
        next == IF nextSampleIdx + 1 <= Len(sampleDistances)
                THEN sampleDistances[nextSampleIdx + 1]
                ELSE prev
    IN  IF next.dist > prev.dist
        THEN LET den == next.dist - prev.dist
                 ratioNum == Max(0, Min(den, currentDist - prev.dist))
             IN  [num |-> prev.prob * den + (next.prob + prev.prob) * ratioNum,
                  den |-> den]
        ELSE [num |-> prev.prob, den |-> 1]

\* prev.prob + (next.prob - prev.prob) * clamp(ratio, 0, 1), as a fraction
InterpolatedProb(sampleDistances, nextSampleIdx, currentDist) ==
    LET prev == sampleDistances[nextSampleIdx]
        next == IF nextSampleIdx + 1 <= Len(sampleDistances)
                THEN sampleDistances[nextSampleIdx + 1]
                ELSE prev
    IN  IF next.dist > prev.dist
        THEN LET den == next.dist - prev.dist
                 ratioNum == Max(0, Min(den, currentDist - prev.dist))
             IN  [num |-> prev.prob * den + (next.prob - prev.prob) * ratioNum,
                  den |-> den]
        ELSE [num |-> prev.prob, den |-> 1]

\* Variant: on a colour change the segment is closed without the new point
CloseSegmentUnconnected(currentSegment, pos) == currentSegment

\* currentSegment.push(pos); // Connect segments
CloseSegment(currentSegment, pos) == Append(currentSegment, pos)

RECURSIVE SegmentsLoopEveryPoint(_, _, _, _, _, _, _, _)
\* Variant: the open segment is closed at every point, whatever its colour
SegmentsLoopEveryPoint(path, sampleDistances, i, currentDist, nextSampleIdx, currentSegment, currentColor, segments) ==
    IF i > Len(path)
    THEN IF Len(currentSegment) > 0
         THEN Append(segments, [positions |-> currentSegment,
                                color |-> currentColor])
         ELSE segments
    ELSE LET point == path[i]
             lastPoint == IF i = 1 THEN path[1] ELSE path[i - 1]
             dist == currentDist + MathHypot(point.lat - lastPoint.lat,
                                             point.lng - lastPoint.lng)
             idx == AdvanceSample(sampleDistances, nextSampleIdx, dist)
             color == getSegmentColor(InterpolatedProb(sampleDistances, idx, dist))
             pos == <<point.lat, point.lng>>
             current == IF currentColor = "" THEN color ELSE currentColor
         IN  SegmentsLoopEveryPoint(path, sampleDistances, i + 1, dist, idx,
                 <<pos>>, color,
                 IF Len(currentSegment) > 0
                 THEN Append(segments,
                          [positions |-> CloseSegment(currentSegment, pos),
                           color |-> current])
                 ELSE segments)

\* "Walk route again and interpolate": the body of route.path.forEach
RECURSIVE SegmentsLoop(_, _, _, _, _, _, _, _)
SegmentsLoop(path, sampleDistances, i, currentDist, nextSampleIdx, currentSegment, currentColor, segments) ==
    IF i > Len(path)
    THEN IF Len(currentSegment) > 0
         THEN Append(segments, [positions |-> currentSegment,
                                color |-> currentColor])
         ELSE segments
    ELSE LET point == path[i]
             lastPoint == IF i = 1 THEN path[1] ELSE path[i - 1]
             dist == currentDist + MathHypot(point.lat - lastPoint.lat,
                                             point.lng - lastPoint.lng)
             idx == AdvanceSample(sampleDistances, nextSampleIdx, dist)
             color == getSegmentColor(InterpolatedProb(sampleDistances, idx, dist))
             pos == <<point.lat, point.lng>>
             current == IF currentColor = "" THEN color ELSE currentColor
         IN  IF color # current
             THEN SegmentsLoop(path, sampleDistances, i + 1, dist, idx,
                      <<pos>>, color,
                      IF Len(currentSegment) > 0
                      THEN Append(segments,
                               [positions |-> CloseSegment(currentSegment, pos),
                                color |-> current])
                      ELSE segments)
             ELSE SegmentsLoop(path, sampleDistances, i + 1, dist, idx,
                      Append(currentSegment, pos), current, segments)

\* The same walk, keeping for every path point the index of the bracketing
\* sample and the interpolated probability
RECURSIVE InterpolationWalk(_, _, _, _, _, _)
InterpolationWalk(path, sampleDistances, i, currentDist, nextSampleIdx, walk) ==
    IF i > Len(path)
    THEN walk
    ELSE LET point == path[i]
             lastPoint == IF i = 1 THEN path[1] ELSE path[i - 1]
             dist == currentDist + MathHypot(point.lat - lastPoint.lat,
                                             point.lng - lastPoint.lng)
             idx == AdvanceSample(sampleDistances, nextSampleIdx, dist)
         IN  InterpolationWalk(path, sampleDistances, i + 1, dist, idx,
                 Append(walk,
                        [nextSampleIdx |-> idx,
                         prob |-> InterpolatedProb(sampleDistances, idx, dist)]))

\* coloredSegments is null
NoSegments == [none |-> TRUE]

\* MapView: the useMemo that computes coloredSegments from its dependencies
coloredSegments(rs, wd, sel) ==
    IF sel = Null \/ sel \notin DOMAIN wd
          \/ ~(\E r \in 1..Len(rs) : rs[r].id = sel)
    THEN NoSegments
    ELSE LET route == rs[CHOOSE r \in 1..Len(rs) :
                            /\ rs[r].id = sel
                            /\ \A q \in 1..(r - 1) : rs[q].id # sel]
             weather == wd[sel]
         IN  IF Len(weather.points) = 0
             THEN NoSegments
             ELSE SegmentsLoop(route.path,
                               sampleDistancesOf(route.path, weather.points),
                               1, 0, 1, <<>>, "", <<>>)

\* -------------------------------------------------------------------- state

VARIABLES
    routes,           \* App: useState<Route[]>
    weatherData,      \* App: useState<Record<string, RouteWeather>>
    selectedRouteId,  \* App: useState<string | null>
    isLoading,        \* App: useState(false)
    toast,            \* App: useState<ToastState | null>, by its message
    startPoint,       \* App: useState<LatLng | null>
    endPoint,         \* App: useState<LatLng | null>
    lastRequestRef,   \* App: useRef<number>(0)
    now,              \* Date.now()
    pc,               \* position of the running handleFindRoutes call
    fetchedRoutes,    \* handleFindRoutes: const fetchedRoutes
    weatherMap,       \* handleFindRoutes: const weatherMap
    samplePoints,     \* analyzeRouteWeather of route r: const samplePoints
    forecasts,        \* ... the promises returned by WeatherAPI.getForecast
    weatherPromises,  \* ... const weatherPromises
    arrival,          \* history: per route, the sample indices in the order
                      \* in which their lookups settled
    weatherCache,     \* api.ts: const weatherCache = new Map<string, CacheEntry>()
    calls,            \* the WeatherAPI.getForecast calls, in the order of
                      \* their start: position, locals and returned promise
    requests          \* history: the external forecast requests issued

vars == <<routes, weatherData, selectedRouteId, isLoading, toast, startPoint,
          endPoint, lastRequestRef, now, pc, fetchedRoutes, weatherMap,
          samplePoints, forecasts, weatherPromises, arrival,
          weatherCache, calls, requests>>

cacheVars == <<weatherCache, calls, requests>>

appVars == <<routes, weatherData, selectedRouteId, isLoading, toast,
             startPoint, endPoint, lastRequestRef>>

searchVars == <<pc, fetchedRoutes, weatherMap, samplePoints, forecasts,
                weatherPromises, arrival>>

\* ------------------------------------------------------------------- inputs

\* Positions the user can click
ClickPoints == {Point(0, 0), Point(1, 1)}

\* What a forecast lookup can answer in the App specification
SearchForecasts == {5, 75}

\* ... and in the specification of one search's analyses
AnalysisForecasts == {0, 5, 20, 40, 80}

MakeRoute(i, distance, lats) ==
    [id |-> RouteId(i), duration |-> 0, distance |-> distance,
     path |-> [j \in 1..Len(lats) |-> Point(lats[j], 0)]]

\* Routing answers of the App specification: up to MaxRoutes routes, each a
\* path of one point (one weather sample per route)
SearchRouteLists ==
    {[i \in 1..n |-> MakeRoute(i, 0, <<i>>)] : n \in 0..MaxRoutes}

\* ------------------------------------------------------------------ actions

\* The module-level cache is empty and no lookup has been made
CacheInit ==
    /\ weatherCache = EmptyMap
    /\ calls = <<>>
    /\ requests = <<>>

Init ==
    /\ CacheInit
    /\ routes = <<>>
    /\ weatherData = EmptyMap
    /\ selectedRouteId = Null
    /\ isLoading = FALSE
    /\ toast = Null
    /\ startPoint = NoPoint
    /\ endPoint = NoPoint
    /\ lastRequestRef = 0
    /\ now = RATE_LIMIT_MS
    /\ pc = "idle"
    /\ fetchedRoutes = <<>>
    /\ weatherMap = EmptyMap
    /\ samplePoints = <<>>
    /\ forecasts = <<>>
    /\ weatherPromises = <<>>
    /\ arrival = <<>>

\* Time passes
Tick ==
    /\ UNCHANGED cacheVars
    /\ now < RATE_LIMIT_MS + MaxClock * (RATE_LIMIT_MS \div 2)
    /\ now' = now + (RATE_LIMIT_MS \div 2)
    /\ UNCHANGED <<appVars, searchVars>>

\* Variant: the reset click forgets to clear the end point
handleMapClickKeepsEnd(p) ==
    /\ UNCHANGED cacheVars
    /\ IF startPoint = NoPoint
       THEN /\ startPoint' = p
            /\ UNCHANGED <<endPoint, routes>>
       ELSE IF endPoint = NoPoint
       THEN /\ endPoint' = p
            /\ UNCHANGED <<startPoint, routes>>
       ELSE /\ startPoint' = p
            /\ endPoint' = endPoint
            /\ routes' = <<>>
    /\ UNCHANGED <<weatherData, selectedRouteId, isLoading, toast,
                   lastRequestRef, now, searchVars>>

\* App.handleMapClick
handleMapClick(p) ==
    /\ UNCHANGED cacheVars
    /\ IF startPoint = NoPoint
       THEN /\ startPoint' = p
            /\ UNCHANGED <<endPoint, routes>>
       ELSE IF endPoint = NoPoint
       THEN /\ endPoint' = p
            /\ UNCHANGED <<startPoint, routes>>
       ELSE /\ startPoint' = p
            /\ endPoint' = NoPoint
            /\ routes' = <<>>
    /\ UNCHANGED <<weatherData, selectedRouteId, isLoading, toast,
                   lastRequestRef, now, searchVars>>

\* Controls: the search button is enabled
canSearch == startPoint # NoPoint /\ endPoint # NoPoint /\ ~isLoading

\* Variant: the rejected request is taken as the last request all the same
handleFindRoutesRateLimitedCounted ==
    /\ UNCHANGED cacheVars
    /\ startPoint # NoPoint /\ endPoint # NoPoint
    /\ now - lastRequestRef < RATE_LIMIT_MS
    /\ toast' = "Please wait before searching again"
    /\ lastRequestRef' = now
    /\ UNCHANGED <<routes, weatherData, selectedRouteId, isLoading,
                   startPoint, endPoint, now, searchVars>>

\* App.handleFindRoutes, rate limited: "Please wait before searching again"
handleFindRoutesRateLimited ==
    /\ UNCHANGED cacheVars
    /\ startPoint # NoPoint /\ endPoint # NoPoint
    /\ now - lastRequestRef < RATE_LIMIT_MS
    /\ toast' = "Please wait before searching again"
    /\ UNCHANGED <<routes, weatherData, selectedRouteId, isLoading,
                   startPoint, endPoint, lastRequestRef, now, searchVars>>

\* App.handleFindRoutes called with a point unset: it returns at once
handleFindRoutesNoPoints ==
    /\ startPoint = NoPoint \/ endPoint = NoPoint
    /\ UNCHANGED vars

\* App.handleFindRoutes, accepted: up to the await of DirectionsAPI.getRoutes
handleFindRoutesStart ==
    /\ UNCHANGED cacheVars
    /\ startPoint # NoPoint /\ endPoint # NoPoint
    /\ ~(now - lastRequestRef < RATE_LIMIT_MS)
    /\ lastRequestRef' = now
    /\ isLoading' = TRUE
    /\ routes' = <<>>
    /\ weatherData' = EmptyMap
    /\ selectedRouteId' = Null
    /\ pc' = "fetching"
    /\ fetchedRoutes' = <<>>
    /\ weatherMap' = EmptyMap
    /\ samplePoints' = <<>>
    /\ forecasts' = <<>>
    /\ weatherPromises' = <<>>
    /\ arrival' = <<>>
    /\ UNCHANGED <<toast, startPoint, endPoint, now>>

\* Variant: the catch block without the finally block
RoutesFailNoFinally ==
    /\ UNCHANGED cacheVars
    /\ pc = "fetching"
    /\ toast' = "Failed to fetch routes. Please try again."
    /\ pc' = "idle"
    /\ UNCHANGED <<routes, weatherData, selectedRouteId, isLoading, startPoint,
                   endPoint, lastRequestRef, now, fetchedRoutes, weatherMap,
                   samplePoints, forecasts, weatherPromises, arrival>>

\* DirectionsAPI.getRoutes throws: catch and finally of handleFindRoutes
RoutesFail ==
    /\ UNCHANGED cacheVars
    /\ pc = "fetching"
    /\ toast' = "Failed to fetch routes. Please try again."
    /\ isLoading' = FALSE
    /\ pc' = "idle"
    /\ UNCHANGED <<routes, weatherData, selectedRouteId, startPoint, endPoint,
                   lastRequestRef, now, fetchedRoutes, weatherMap,
                   samplePoints, forecasts, weatherPromises, arrival>>

\* DirectionsAPI.getRoutes resolves with no route
RoutesEmpty ==
    /\ UNCHANGED cacheVars
    /\ pc = "fetching"
    /\ toast' = "No routes found. Try different locations."
    /\ isLoading' = FALSE
    /\ pc' = "idle"
    /\ UNCHANGED <<routes, weatherData, selectedRouteId, startPoint, endPoint,
                   lastRequestRef, now, fetchedRoutes, weatherMap,
                   samplePoints, forecasts, weatherPromises, arrival>>

\* The state in which every analysis of rs has just been started: each
\* analyzeRouteWeather call runs selectSamplePoints and issues one lookup per
\* sample before it suspends on Promise.all
StartAnalyses(rs) ==
    /\ fetchedRoutes' = rs
    /\ weatherMap' = EmptyMap
    /\ samplePoints' = [r \in 1..Len(rs) |-> selectSamplePoints(rs[r])]
    /\ forecasts' = [r \in 1..Len(rs) |->
                        [i \in 1..Len(samplePoints'[r]) |-> Pending]]
    /\ weatherPromises' = forecasts'
    /\ arrival' = [r \in 1..Len(rs) |-> <<>>]

\* DirectionsAPI.getRoutes resolves with routes: setRoutes and the start of
\* all analyses
RoutesArrive(rs) ==
    /\ UNCHANGED cacheVars
    /\ pc = "fetching"
    /\ Len(rs) > 0
    /\ routes' = rs
    /\ StartAnalyses(rs)
    /\ pc' = "analysing"
    /\ UNCHANGED <<weatherData, selectedRouteId, isLoading, toast, startPoint,
                   endPoint, lastRequestRef, now>>

SamplePoint(r, i) == fetchedRoutes[r].path[samplePoints[r][i]]

\* The lookup of sample i of route r resolves with rainChance
LookupResolve(r, i, rainChance) ==
    /\ UNCHANGED cacheVars
    /\ pc = "analysing"
    /\ forecasts[r][i] = Pending
    /\ forecasts' = [forecasts EXCEPT ![r][i] = Fulfilled(rainChance)]
    /\ weatherPromises' =
           [weatherPromises EXCEPT
               ![r] = SettleAt(@, i, FulfilledPoint(SamplePoint(r, i), rainChance))]
    /\ arrival' = [arrival EXCEPT ![r] = Append(@, i)]
    /\ UNCHANGED <<appVars, now, pc, fetchedRoutes, weatherMap, samplePoints>>

\* The lookup of sample i of route r throws or rejects
LookupReject(r, i) ==
    /\ UNCHANGED cacheVars
    /\ pc = "analysing"
    /\ forecasts[r][i] = Pending
    /\ forecasts' = [forecasts EXCEPT ![r][i] = Rejected]
    /\ weatherPromises' =
           [weatherPromises EXCEPT
               ![r] = SettleAt(@, i, CatchPoint(SamplePoint(r, i)))]
    /\ arrival' = [arrival EXCEPT ![r] = Append(@, i)]
    /\ UNCHANGED <<appVars, now, pc, fetchedRoutes, weatherMap, samplePoints>>

\* analyzeRouteWeather of route r resumes after Promise.all and returns;
\* handleFindRoutes stores the result in weatherMap
AnalysisResolve(r) ==
    /\ UNCHANGED cacheVars
    /\ pc = "analysing"
    /\ fetchedRoutes[r].id \notin DOMAIN weatherMap
    /\ AllFulfilled(weatherPromises[r])
    /\ weatherMap' =
           [id \in DOMAIN weatherMap \cup {fetchedRoutes[r].id} |->
               IF id = fetchedRoutes[r].id
               THEN BuildRouteWeather(id, PromiseAllValues(weatherPromises[r]))
               ELSE weatherMap[id]]
    /\ UNCHANGED <<appVars, now, pc, fetchedRoutes, samplePoints, forecasts,
                   weatherPromises, arrival>>

\* The handleFindRoutes call has returned: its locals are gone
CallReturns ==
    /\ fetchedRoutes' = <<>>
    /\ weatherMap' = EmptyMap
    /\ samplePoints' = <<>>
    /\ forecasts' = <<>>
    /\ weatherPromises' = <<>>
    /\ arrival' = <<>>

\* weatherMap[id]?.score ?? 100 (in tenths)
ScoreOrDefault(wm, id) == IF id \in DOMAIN wm THEN wm[id].score ELSE 1000

\* fetchedRoutes.reduce((best, current) => ...): routes i..Len still to visit
RECURSIVE ReduceBest(_, _, _, _)
ReduceBest(rs, wm, best, i) ==
    IF i > Len(rs)
    THEN best
    ELSE ReduceBest(rs, wm,
                    IF ScoreOrDefault(wm, rs[i].id) < ScoreOrDefault(wm, best.id)
                    THEN rs[i] ELSE best,
                    i + 1)

\* Variant: the first route of the list is taken
bestRouteFirst(rs, wm) == rs[1]

bestRoute(rs, wm) == ReduceBest(rs, wm, rs[1], 2)

\* Variant: the handler resumes as soon as one analysis has stored its result
SomeAnalysisResolved(rs, wm) == \E r \in 1..Len(rs) : rs[r].id \in DOMAIN wm

\* Promise.all over the route analyses resolves when each has stored its result
AllAnalysesResolved(rs, wm) == \A r \in 1..Len(rs) : rs[r].id \in DOMAIN wm

\* handleFindRoutes resumes after Promise.all: setWeatherData, the automatic
\* selection, the toast and the finally block
SearchComplete ==
    /\ UNCHANGED cacheVars
    /\ pc = "analysing"
    /\ AllAnalysesResolved(fetchedRoutes, weatherMap)
    /\ weatherData' = weatherMap
    /\ selectedRouteId' = bestRoute(fetchedRoutes, weatherMap).id
    /\ toast' = "Found route(s)!"
    /\ isLoading' = FALSE
    /\ pc' = "idle"
    /\ CallReturns
    /\ UNCHANGED <<routes, startPoint, endPoint, lastRequestRef, now>>

\* RouteList card or MapView polyline clicked: onSelectRoute(route.id)
SelectRoute(r) ==
    /\ UNCHANGED cacheVars
    /\ r \in 1..Len(routes)
    /\ selectedRouteId' = routes[r].id
    /\ UNCHANGED <<routes, weatherData, isLoading, toast, startPoint, endPoint,
                   lastRequestRef, now, searchVars>>

\* Toast: onClose after the auto-dismiss delay
ToastClose ==
    /\ UNCHANGED cacheVars
    /\ toast # Null
    /\ toast' = Null
    /\ UNCHANGED <<routes, weatherData, selectedRouteId, isLoading, startPoint,
                   endPoint, lastRequestRef, now, searchVars>>

LookupStep(values) ==
    \E r \in 1..Len(fetchedRoutes) :
        \E i \in 1..Len(forecasts[r]) :
            \/ \E v \in values : LookupResolve(r, i, v)
            \/ LookupReject(r, i)

AnalysisStep == \E r \in 1..Len(fetchedRoutes) : AnalysisResolve(r)

Next ==
    \/ Tick
    \/ \E p \in ClickPoints : handleMapClick(p)
    \/ canSearch /\ handleFindRoutesRateLimited
    \/ canSearch /\ handleFindRoutesStart
    \/ handleFindRoutesNoPoints
    \/ RoutesFail
    \/ \E rs \in SearchRouteLists : Len(rs) = 0 /\ RoutesEmpty
    \/ \E rs \in SearchRouteLists : RoutesArrive(rs)
    \/ LookupStep(SearchForecasts)
    \/ AnalysisStep
    \/ SearchComplete
    \/ \E r \in 1..MaxRoutes : SelectRoute(r)
    \/ ToastClose

Spec == Init /\ [][Next]_vars

\* The routing call settles
RoutesSettle ==
    \/ RoutesFail
    \/ \E rs \in SearchRouteLists : Len(rs) = 0 /\ RoutesEmpty
    \/ \E rs \in SearchRouteLists : RoutesArrive(rs)

\* A step of the running search: a pending call settles or a continuation runs
SearchProgress ==
    \/ RoutesSettle
    \/ LookupStep(SearchForecasts)
    \/ AnalysisStep
    \/ SearchComplete

\* The App under the event loop: a pending routing call and pending lookups
\* settle, and a continuation that can run does run
SpecLive == Init /\ [][Next]_vars /\ WF_vars(SearchProgress)

\* --------------------------------------------------- src/App.tsx, RouteList

\* App.tsx, fetchedRoutes.reduce((prev, curr) => s1 < s2 ? prev : curr):
\* routes i..Len still to visit
RECURSIVE ReducePrevCurr(_, _, _, _)
ReducePrevCurr(rs, wm, prev, i) ==
    IF i > Len(rs)
    THEN prev
    ELSE ReducePrevCurr(rs, wm,
                        IF ScoreOrDefault(wm, prev.id) < ScoreOrDefault(wm, rs[i].id)
                        THEN prev ELSE rs[i],
                        i + 1)

\* App.tsx: const best = fetchedRoutes.reduce(...)
appBest(rs, wm) == ReducePrevCurr(rs, wm, rs[1], 2)

\* Array.prototype.sort is stable: route x goes behind every route already
\* placed whose score is not greater than its own
InsertByScore(sorted, wd, x) ==
    LET k == Cardinality({j \in 1..Len(sorted) :
                 ScoreOrDefault(wd, sorted[j].id) <= ScoreOrDefault(wd, x.id)})
    IN  SubSeq(sorted, 1, k) \o <<x>> \o SubSeq(sorted, k + 1, Len(sorted))

RECURSIVE SortByScore(_, _, _, _)
SortByScore(rs, wd, i, sorted) ==
    IF i > Len(rs)
    THEN sorted
    ELSE SortByScore(rs, wd, i + 1, InsertByScore(sorted, wd, rs[i]))

\* RouteList: [...routes].sort((a, b) => scoreA - scoreB)
sortedRoutes(rs, wd) == SortByScore(rs, wd, 1, <<>>)

\* RouteList: isBest={index === 0}, the card badged BEST ROUTE
isBest(rs, wd, id) == Len(rs) > 0 /\ sortedRoutes(rs, wd)[1].id = id

\* App.tsx handleFindRoutes: up to the await of DirectionsAPI.getRoutes
AppFindRoutesStart ==
    /\ UNCHANGED cacheVars
    /\ startPoint # NoPoint /\ endPoint # NoPoint
    /\ isLoading' = TRUE
    /\ routes' = <<>>
    /\ weatherData' = EmptyMap
    /\ selectedRouteId' = Null
    /\ pc' = "fetching"
    /\ fetchedRoutes' = <<>>
    /\ weatherMap' = EmptyMap
    /\ samplePoints' = <<>>
    /\ forecasts' = <<>>
    /\ weatherPromises' = <<>>
    /\ arrival' = <<>>
    /\ UNCHANGED <<toast, startPoint, endPoint, lastRequestRef, now>>

\* App.tsx: DirectionsAPI.getRoutes throws; catch logs, finally ends loading
AppRoutesFail ==
    /\ UNCHANGED cacheVars
    /\ pc = "fetching"
    /\ isLoading' = FALSE
    /\ pc' = "idle"
    /\ UNCHANGED <<routes, weatherData, selectedRouteId, toast, startPoint,
                   endPoint, lastRequestRef, now, fetchedRoutes, weatherMap,
                   samplePoints, forecasts, weatherPromises, arrival>>

\* App.tsx: DirectionsAPI.getRoutes resolves (with any number of routes):
\* setRoutes(fetchedRoutes) and the start of all analyses
AppRoutesArrive(rs) ==
    /\ UNCHANGED cacheVars
    /\ pc = "fetching"
    /\ routes' = rs
    /\ StartAnalyses(rs)
    /\ pc' = "analysing"
    /\ UNCHANGED <<weatherData, selectedRouteId, isLoading, toast, startPoint,
                   endPoint, lastRequestRef, now>>

\* App.tsx handleFindRoutes resumes after Promise.all: setWeatherData, the
\* automatic selection when a route was returned, and the finally block
AppSearchComplete ==
    /\ UNCHANGED cacheVars
    /\ pc = "analysing"
    /\ AllAnalysesResolved(fetchedRoutes, weatherMap)
    /\ weatherData' = weatherMap
    /\ selectedRouteId' = IF Len(fetchedRoutes) > 0
                          THEN appBest(fetchedRoutes, weatherMap).id
                          ELSE selectedRouteId
    /\ isLoading' = FALSE
    /\ pc' = "idle"
    /\ CallReturns
    /\ UNCHANGED <<routes, toast, startPoint, endPoint, lastRequestRef, now>>

NextApp ==
    \/ \E p \in ClickPoints : handleMapClick(p)
    \/ canSearch /\ AppFindRoutesStart
    \/ handleFindRoutesNoPoints
    \/ AppRoutesFail
    \/ \E rs \in SearchRouteLists : AppRoutesArrive(rs)
    \/ LookupStep(SearchForecasts)
    \/ AnalysisStep
    \/ AppSearchComplete
    \/ \E r \in 1..MaxRoutes : SelectRoute(r)

\* The App of src/App.tsx: no rate limit and no notifications
SpecApp == Init /\ [][NextApp]_vars

\* ------------------------------------------- one search's analyses, in depth

\* Two clicks and an accepted search later: handleFindRoutes awaits the routes
InitFetching ==
    /\ CacheInit
    /\ routes = <<>>
    /\ weatherData = EmptyMap
    /\ selectedRouteId = Null
    /\ isLoading = TRUE
    /\ toast = Null
    /\ startPoint = Point(0, 0)
    /\ endPoint = Point(1, 1)
    /\ lastRequestRef = RATE_LIMIT_MS
    /\ now = RATE_LIMIT_MS
    /\ pc = "fetching"
    /\ fetchedRoutes = <<>>
    /\ weatherMap = EmptyMap
    /\ samplePoints = <<>>
    /\ forecasts = <<>>
    /\ weatherPromises = <<>>
    /\ arrival = <<>>

\* Routing answers whose analyses are
\* followed lookup by lookup: one route of n points 5 km apart and a distance
\* of 10 km; one route of 0.4 km and 5 points, of which 3 are sampled; two
\* routes of 1 km and 2 points each
AnalysisRouteLists ==
    {<<MakeRoute(1, 100, [j \in 1..n |-> 50 * (j - 1)])>> :
        n \in 1..MaxAnalysisPoints}
    \cup {<<MakeRoute(1, 4, <<0, 1, 2, 3, 4>>)>>,
          <<MakeRoute(1, 10, <<0, 10>>), MakeRoute(2, 10, <<0, 10>>)>>}

NextAnalysis ==
    \/ \E rs \in AnalysisRouteLists : RoutesArrive(rs)
    \/ LookupStep(AnalysisForecasts)
    \/ AnalysisStep
    \/ SearchComplete

SpecAnalysis == InitFetching /\ [][NextAnalysis]_vars

\* ------------------------------------------------- the sampler, on all paths

\* route.distance values (tenths of a km): 0, below / at / above the length
\* of the paths, and around the steps of the target sample count
SamplerDistances == {0, 2, 4, 150, 151, 1000}

NextSampler ==
    /\ pc = "fetching"
    /\ \E d \in SamplerDistances, n \in 1..MaxPathLen :
           \E lats \in [1..n -> 0..MaxLat] :
               RoutesArrive(<<MakeRoute(1, d, lats)>>)

SpecSampler == InitFetching /\ [][NextSampler]_vars

\* ------------------------------------- the scorer, around its thresholds

\* Forecast answers on both sides of every threshold of getCondition and
\* getRecommendation
ScorerForecasts == {0, 9, 10, 11, 15, 20, 21, 40, 41, 50, 51, 70, 71}

\* One route of 10 km and 3 points 5 km apart: every point is sampled
ScorerRouteLists == {<<MakeRoute(1, 100, <<0, 50, 100>>)>>}

NextScorer ==
    \/ \E rs \in ScorerRouteLists : RoutesArrive(rs)
    \/ LookupStep(ScorerForecasts)
    \/ AnalysisStep
    \/ SearchComplete

SpecScorer == InitFetching /\ [][NextScorer]_vars

\* ------------------------------------------------------ the forecast cache

\* Number.toFixed(2) of a coordinate given in thousandths of a degree (>= 0),
\* as a number of hundredths
toFixed2(x) == (x + 5) \div 10

\* `${lat.toFixed(2)},${lng.toFixed(2)}`, as the pair of the two numbers
getCacheKey(lat, lng) == <<toFixed2(lat), toFixed2(lng)>>

\* Variant: an entry of exactly the time-to-live still counts as fresh
CacheFreshInclusive(cached, time) == (time - cached.timestamp) <= CACHE_TTL_MS

\* (now - cached.timestamp) < CACHE_TTL_MS
CacheFresh(cached, time) == (time - cached.timestamp) < CACHE_TTL_MS

\* weatherCache.set(cacheKey, entry)
CacheSet(cache, cacheKey, entry) ==
    [k \in DOMAIN cache \cup {cacheKey} |->
        IF k = cacheKey THEN entry ELSE cache[k]]

\* Variant: the error is passed on to the caller
CatchForecastRethrow(call) == [state |-> "rejected"]

\* catch { return 0; }
CatchForecast(call) == Fulfilled(0)

\* Coordinates looked up, in thousandths of a degree: the first two round to
\* the same hundredth
CacheLats == {1001, 1004, 1012}

\* precipitation_probability of an hour; 0 also stands for a missing value,
\* which `|| 0` turns into 0
HourlyValues == {0, 60}

\* WeatherAPI.getForecast up to its first await: the cache check, and on a
\* miss the external request
getForecastStart(lat, lng) ==
    /\ Len(calls) < MaxCalls
    /\ LET cacheKey == getCacheKey(lat, lng)
           hit == /\ cacheKey \in DOMAIN weatherCache
                  /\ CacheFresh(weatherCache[cacheKey], now)
           call == [lat |-> lat, lng |-> lng, cacheKey |-> cacheKey,
                    now |-> now]
       IN  IF hit
           THEN /\ calls' = Append(calls,
                       [call |-> call, pc |-> "done", outcome |-> "hit",
                        result |-> Fulfilled(weatherCache[cacheKey].probability)])
                /\ UNCHANGED <<weatherCache, requests>>
           ELSE /\ calls' = Append(calls,
                       [call |-> call, pc |-> "fetching", outcome |-> "pending",
                        result |-> Pending])
                /\ requests' = Append(requests,
                       [cacheKey |-> cacheKey, time |-> now])
                /\ UNCHANGED weatherCache
    /\ UNCHANGED <<appVars, searchVars, now>>

\* The request of call c is answered with a forecast: the try block
FetchResolve(c, rainNow, rainNext) ==
    /\ calls[c].pc = "fetching"
    /\ LET probability == Max(rainNow, rainNext)
       IN  /\ weatherCache' =
                  CacheSet(weatherCache, calls[c].call.cacheKey,
                           [probability |-> probability,
                            timestamp |-> calls[c].call.now])
           /\ calls' = [calls EXCEPT ![c] =
                  [@ EXCEPT !.pc = "done", !.outcome = "fetched",
                            !.result = Fulfilled(probability)]]
    /\ UNCHANGED <<appVars, searchVars, now, requests>>

\* Variant: the catch block stores the fallback value before it returns it
FetchFailStoresFallback(c) ==
    /\ calls[c].pc = "fetching"
    /\ weatherCache' =
           CacheSet(weatherCache, calls[c].call.cacheKey,
                    [probability |-> 0, timestamp |-> calls[c].call.now])
    /\ calls' = [calls EXCEPT ![c] =
           [@ EXCEPT !.pc = "done", !.outcome = "failed",
                     !.result = CatchForecast(calls[c].call)]]
    /\ UNCHANGED <<appVars, searchVars, now, requests>>

\* The request of call c fails, or its answer is no forecast: the catch block
FetchFail(c) ==
    /\ calls[c].pc = "fetching"
    /\ calls' = [calls EXCEPT ![c] =
           [@ EXCEPT !.pc = "done", !.outcome = "failed",
                     !.result = CatchForecast(calls[c].call)]]
    /\ UNCHANGED <<appVars, searchVars, now, weatherCache, requests>>

\* Time passes, half a time-to-live at a time
CacheTick ==
    /\ now < RATE_LIMIT_MS + MaxCacheTicks * (CACHE_TTL_MS \div 2)
    /\ now' = now + (CACHE_TTL_MS \div 2)
    /\ UNCHANGED <<appVars, searchVars, cacheVars>>

NextCache ==
    \/ CacheTick
    \/ \E lat \in CacheLats : getForecastStart(lat, 0)
    \/ \E c \in 1..Len(calls) :
           \E rainNow, rainNext \in HourlyValues : FetchResolve(c, rainNow, rainNext)
    \/ \E c \in 1..Len(calls) : FetchFail(c)

SpecCache == Init /\ [][NextCache]_vars

\* ------------------------------------------- the colorizer, on all paths

\* Forecast answers three colour bands apart
ColorForecasts == {0, 40, 100}

\* route.distance values: with 0.4 km the sampler keeps inner points of a
\* four-point path, with 15 km only its two ends
ColorDistances == {4, 150}

\* Latitudes of the path points
ColorLats == 0..2

\* The lookups of one route are answered in the order of their samples
LookupStepInOrder(values) ==
    \E r \in 1..Len(fetchedRoutes) :
        \E i \in 1..Len(forecasts[r]) :
            /\ \A h \in 1..(i - 1) : forecasts[r][h] # Pending
            /\ \E v \in values : LookupResolve(r, i, v)

NextColorizer ==
    \/ /\ pc = "fetching"
       /\ \E d \in ColorDistances, n \in 1..MaxColorPathLen :
              \E lats \in [1..n -> ColorLats] :
                  RoutesArrive(<<MakeRoute(1, d, lats)>>)
    \/ LookupStepInOrder(ColorForecasts)
    \/ AnalysisStep
    \/ SearchComplete

SpecColorizer == InitFetching /\ [][NextColorizer]_vars

\* ------------------------------------------------------------------- claims

\* Routes of the running search whose analysis has returned
ResolvedRoutes ==
    {r \in 1..Len(fetchedRoutes) : fetchedRoutes[r].id \in DOMAIN weatherMap}

ResultOf(r) == weatherMap[fetchedRoutes[r].id]

\* What the lookup with outcome f contributes: its value, 0 when it failed
OutcomeValue(f) == IF f.state = "fulfilled" THEN f.value ELSE 0

RECURSIVE SeqSum(_)
SeqSum(s) == IF Len(s) = 0 THEN 0 ELSE s[Len(s)] + SeqSum(SubSeq(s, 1, Len(s) - 1))

\* avg is total / n rounded to the nearest integer, halves up
IsRoundedMean(avg, total, n) ==
    /\ 2 * n * avg <= 2 * total + n
    /\ 2 * total + n < 2 * n * (avg + 1)

IsMaximum(m, s) == (\E i \in 1..Len(s) : s[i] = m) /\ (\A i \in 1..Len(s) : s[i] <= m)

Probabilities(rw) == [i \in 1..Len(rw.points) |-> rw.points[i].rainProbability]

\* C1: the i-th element of RouteWeather.points carries the coordinates of the
\* i-th sample point and the rain probability its own lookup produced (0 when
\* that lookup failed), whatever the order in which the lookups completed.
C1_PointsInSampleOrder ==
    \A r \in ResolvedRoutes :
        LET pts == ResultOf(r).points
        IN  /\ Len(pts) = Len(samplePoints[r])
            /\ \A i \in 1..Len(pts) :
                   /\ pts[i].lat = fetchedRoutes[r].path[samplePoints[r][i]].lat
                   /\ pts[i].lng = fetchedRoutes[r].path[samplePoints[r][i]].lng
                   /\ i <= Len(forecasts[r])
                   /\ pts[i].rainProbability = OutcomeValue(forecasts[r][i])

\* C1 witness: an analysis has returned although its last sample's lookup
\* settled first and its first sample's lookup last, with different answers.
C1_Witness ==
    \E r \in ResolvedRoutes :
        LET n == Len(samplePoints[r])
        IN  /\ n >= 3
            /\ Len(arrival[r]) = n
            /\ arrival[r][1] = n
            /\ arrival[r][n] = 1
            /\ ResultOf(r).points[1].rainProbability = 80
            /\ ResultOf(r).points[n].rainProbability = 5
            /\ samplePoints[r] # [i \in 1..n |-> i]

\* C2: whichever lookups throw or reject, the analysis returns a result with
\* exactly N points; a failed point has probability 0 and condition "Clear",
\* a successful point keeps its value, and average and maximum are taken over
\* all N points, the zeros included.
C2_FailureIsolation ==
    \A r \in ResolvedRoutes :
        LET rw == ResultOf(r)
            n == Len(samplePoints[r])
            values == [i \in 1..n |-> OutcomeValue(forecasts[r][i])]
        IN  /\ Len(rw.points) = n
            /\ \A i \in 1..n :
                   /\ forecasts[r][i].state = "rejected" =>
                          /\ rw.points[i].rainProbability = 0
                          /\ rw.points[i].condition = "Clear"
                   /\ forecasts[r][i].state = "fulfilled" =>
                          rw.points[i].rainProbability = forecasts[r][i].value
            /\ IsRoundedMean(rw.averageRainChance, SeqSum(values), n)
            /\ IsMaximum(rw.maxRainChance, values)

\* C2 witness: a result of three points of which one lookup failed and two
\* succeeded with non-zero values.
C2_Witness ==
    \E r \in ResolvedRoutes :
        /\ Len(forecasts[r]) = 3
        /\ forecasts[r][2] = Rejected
        /\ forecasts[r][1] = Fulfilled(80)
        /\ forecasts[r][3] = Fulfilled(20)
        /\ ResultOf(r).averageRainChance = 33

\* C3: a RouteWeather exists only once every lookup of its route has settled,
\* and it covers every sample point.
C3_NoPartialResult ==
    \A r \in ResolvedRoutes :
        /\ \A i \in 1..Len(forecasts[r]) : forecasts[r][i].state # "pending"
        /\ Len(arrival[r]) = Len(samplePoints[r])
        /\ Len(ResultOf(r).points) = Len(samplePoints[r])

\* C3 witness: the result of a route with three samples has been returned,
\* one of whose lookups failed.
C3_Witness ==
    \E r \in ResolvedRoutes :
        /\ Len(samplePoints[r]) = 3
        /\ Len(ResultOf(r).points) = 3
        /\ forecasts[r][3] = Rejected

\* C4: weatherData is empty or holds an entry for every route of the search
\* that produced it, and it becomes non-empty in one step, from empty, when
\* every analysis of the search has returned.
C4_CompleteMap ==
    \/ weatherData = EmptyMap
    \/ /\ \E n \in 1..MaxRoutes : DOMAIN weatherData = {RouteId(i) : i \in 1..n}
       /\ \A i \in 1..Len(routes) : routes[i].id \in DOMAIN weatherData

C4_PublishStep ==
    weatherData' # weatherData =>
        \/ weatherData' = EmptyMap
        \/ /\ weatherData = EmptyMap
           /\ Len(fetchedRoutes) > 0
           /\ DOMAIN weatherData' =
                  {fetchedRoutes[r].id : r \in 1..Len(fetchedRoutes)}
           /\ \A id \in DOMAIN weatherData' :
                  id \in DOMAIN weatherMap /\ weatherData'[id] = weatherMap[id]

C4_PublishedAtOnce == [](C4_CompleteMap) /\ [][C4_PublishStep]_vars

\* C4 witness: the results of a search with two routes are published.
C4_Witness ==
    /\ DOMAIN weatherData = {RouteId(1), RouteId(2)}
    /\ Len(routes) = 2
    /\ weatherData[RouteId(1)].score # weatherData[RouteId(2)].score

LastIndex(r) == Len(fetchedRoutes[r].path)

\* C5: the first sample is the path's first point and the last sample is the
\* path's last point.
C5_EndpointsSampled ==
    \A r \in 1..Len(fetchedRoutes) :
        /\ Len(samplePoints[r]) >= 1
        /\ samplePoints[r][1] = 1
        /\ samplePoints[r][Len(samplePoints[r])] = LastIndex(r)

\* C5 witness: five points 0.1 km apart with a distance of 15 km (target 3):
\* no threshold is reached and the last point is sampled all the same.
C5_Witness ==
    /\ Len(fetchedRoutes) = 1
    /\ fetchedRoutes[1].distance = 150
    /\ fetchedRoutes[1].path = [j \in 1..5 |-> Point(IF j <= 3 THEN j - 1 ELSE 5 - j, 0)]
    /\ samplePoints[1] = <<1, 5>>

\* clamp(ceil(distance / 5 km), 3, 15), distance in tenths of a km
ClampedTarget(distance) ==
    LET c == CHOOSE c \in 0..(distance \div 50 + 1) :
                 c * 50 >= distance /\ (c - 1) * 50 < distance
    IN  IF c < 3 THEN 3 ELSE IF c > 15 THEN 15 ELSE c

\* C6: a path with no more points than the target sample count is returned
\* whole: same points, same order, same length.
C6_ShortPathUnchanged ==
    \A r \in 1..Len(fetchedRoutes) :
        Len(fetchedRoutes[r].path) <= ClampedTarget(fetchedRoutes[r].distance) =>
            samplePoints[r] = [i \in 1..Len(fetchedRoutes[r].path) |-> i]

\* C6 witness: four points and 15.1 km, target 4: the four points are the samples.
C6_Witness ==
    /\ Len(fetchedRoutes) = 1
    /\ fetchedRoutes[1].distance = 151
    /\ Len(fetchedRoutes[1].path) = 4
    /\ samplePoints[1] = <<1, 2, 3, 4>>

\* C7: for a path with more points than the target, the number of samples is
\* at least 2 and at most target + 1.
C7_SampleCountBounds ==
    \A r \in 1..Len(fetchedRoutes) :
        Len(fetchedRoutes[r].path) > ClampedTarget(fetchedRoutes[r].distance) =>
            /\ Len(samplePoints[r]) >= 2
            /\ Len(samplePoints[r]) <= ClampedTarget(fetchedRoutes[r].distance) + 1

\* C8: the samples are taken at strictly increasing path indices: none twice,
\* in travel order, never more than the path has points.
C8_StrictlyIncreasing ==
    \A r \in 1..Len(fetchedRoutes) :
        LET sp == samplePoints[r]
        IN  /\ Len(sp) >= 1
            /\ \A i \in 1..Len(sp) : sp[i] \in 1..Len(fetchedRoutes[r].path)
            /\ \A i \in 1..(Len(sp) - 1) : sp[i] < sp[i + 1]
            /\ Len(sp) <= Len(fetchedRoutes[r].path)

\* C8 witness: in the long-path branch the loop itself samples the last point
\* (the distance is reached exactly there), which is then not pushed again.
C8_Witness ==
    /\ Len(fetchedRoutes) = 1
    /\ fetchedRoutes[1].distance = 4
    /\ fetchedRoutes[1].path = [j \in 1..5 |-> Point(IF j <= 3 THEN j - 1 ELSE 5 - j, 0)]
    /\ samplePoints[1] = <<1, 3, 5>>

\* C9: maxRainChance is the largest sample probability and averageRainChance
\* the mean of all sample probabilities rounded to the nearest integer, halves
\* up; samples 0, 20, 80 give average 33 and maximum 80.
C9_Aggregates ==
    \A r \in ResolvedRoutes :
        LET rw == ResultOf(r)
            probs == Probabilities(rw)
        IN  /\ Len(probs) >= 1
            /\ \A i \in 1..Len(probs) : probs[i] \in 0..100
            /\ IsMaximum(rw.maxRainChance, probs)
            /\ IsRoundedMean(rw.averageRainChance, SeqSum(probs), Len(probs))
            /\ probs = <<0, 20, 80>> =>
                   rw.averageRainChance = 33 /\ rw.maxRainChance = 80
            /\ probs = <<0, 5>> => rw.averageRainChance = 3

\* C9 witness: the result for the samples 0, 20, 80, all lookups successful.
C9_Witness ==
    \E r \in ResolvedRoutes :
        /\ Probabilities(ResultOf(r)) = <<0, 20, 80>>
        /\ \A i \in 1..3 : forecasts[r][i].state = "fulfilled"

\* C10: 10 x score = 4 x averageRainChance + 6 x maxRainChance of the same
\* result; with equal maxima the lower average scores lower, with equal
\* averages the lower maximum scores lower.
C10_Score ==
    /\ \A r \in ResolvedRoutes :
           ResultOf(r).score =
               4 * ResultOf(r).averageRainChance + 6 * ResultOf(r).maxRainChance
    /\ \A a, b \in ResolvedRoutes :
           /\ (/\ ResultOf(a).maxRainChance = ResultOf(b).maxRainChance
               /\ ResultOf(a).averageRainChance < ResultOf(b).averageRainChance)
                  => ResultOf(a).score < ResultOf(b).score
           /\ (/\ ResultOf(a).averageRainChance = ResultOf(b).averageRainChance
               /\ ResultOf(a).maxRainChance < ResultOf(b).maxRainChance)
                  => ResultOf(a).score < ResultOf(b).score

\* C10 witness: two results of one search with the same average 20 and the
\* maxima 20 and 40.
C10_Witness ==
    \E a, b \in ResolvedRoutes :
        /\ ResultOf(a).averageRainChance = 20
        /\ ResultOf(b).averageRainChance = 20
        /\ ResultOf(a).maxRainChance = 20
        /\ ResultOf(b).maxRainChance = 40
        /\ ResultOf(a).score = 200
        /\ ResultOf(b).score = 320

\* The recommendation table, with `last` as the text of the default rule
RecommendationRule(rw, last) ==
    LET avg == rw.averageRainChance
        max == rw.maxRainChance
        rec == rw.recommendation
    IN  /\ rec \in {"Stormy! Avoid.", "Rainy sections ahead.", "Might drizzle.",
                    "Dry route!", last}
        /\ (max > 70) => rec = "Stormy! Avoid."
        /\ (max <= 70 /\ max > 40) => rec = "Rainy sections ahead."
        /\ (max <= 40 /\ avg > 20) => rec = "Might drizzle."
        /\ (max <= 40 /\ avg <= 20 /\ max < 10) => rec = "Dry route!"
        /\ (max <= 40 /\ avg <= 20 /\ max >= 10) => rec = last

\* C11 as claimed: the recommendation of every result is chosen by the first
\* matching rule of: max > 70 "Stormy! Avoid.", max > 40 "Rainy sections
\* ahead.", average > 20 "Might drizzle.", max < 10 "Dry route!", otherwise
\* "Safe to ride." with a final full stop.
C11_RecommendationFullStop ==
    \A r \in ResolvedRoutes : RecommendationRule(ResultOf(r), "Safe to ride.")

\* C11 amended: the same rule order, the default text being "Safe to ride"
\* without a full stop.
C11_Recommendation ==
    \A r \in ResolvedRoutes : RecommendationRule(ResultOf(r), "Safe to ride")

\* C11 witness: a result with maximum 15 and average 15, which falls to the
\* default rule.
C11_Witness ==
    \E r \in ResolvedRoutes :
        /\ ResultOf(r).maxRainChance = 15
        /\ ResultOf(r).averageRainChance = 15
        /\ ResultOf(r).recommendation = "Safe to ride"

\* The step in which handleFindRoutes resumes after all analyses
C12_BestStep ==
    (pc = "analysing" /\ pc' = "idle") =>
        /\ Len(fetchedRoutes) >= 1
        /\ \E r \in 1..Len(fetchedRoutes) :
               /\ selectedRouteId' = fetchedRoutes[r].id
               /\ \A q \in 1..Len(fetchedRoutes) :
                      weatherData'[fetchedRoutes[r].id].score
                          <= weatherData'[fetchedRoutes[q].id].score
        /\ \A a, b \in 1..Len(fetchedRoutes) :
               (/\ weatherData'[fetchedRoutes[a].id].score = 50
                /\ weatherData'[fetchedRoutes[b].id].score = 750)
                   => selectedRouteId' # fetchedRoutes[b].id

\* C12: when a search that returned at least one route completes, the route
\* it selects has a score no greater than that of any other returned route;
\* of a route scoring 5 and a route scoring 75 the former is selected, in
\* either order of the two in the list.
C12_BestRouteSelected == [][C12_BestStep]_vars

\* C12 witness: a search has completed with the route scoring 75 first and
\* the route scoring 5 second in the list, and the second is selected.
C12_Witness ==
    /\ pc = "idle"
    /\ toast = "Found route(s)!"
    /\ Len(routes) = 2
    /\ DOMAIN weatherData = {routes[1].id, routes[2].id}
    /\ weatherData[routes[1].id].score = 750
    /\ weatherData[routes[2].id].score = 50
    /\ selectedRouteId = routes[2].id

\* The map shows colored segments: a route with weather is selected
SegmentsRendered ==
    /\ selectedRouteId # Null
    /\ selectedRouteId \in DOMAIN weatherData
    /\ \E r \in 1..Len(routes) : routes[r].id = selectedRouteId
    /\ Len(weatherData[selectedRouteId].points) > 0

RenderedSegments == coloredSegments(routes, weatherData, selectedRouteId)

SelectedPath ==
    routes[CHOOSE r \in 1..Len(routes) : routes[r].id = selectedRouteId].path

PathPositions == [i \in 1..Len(SelectedPath) |->
                     <<SelectedPath[i].lat, SelectedPath[i].lng>>]

\* The segments' positions one after the other, the first position of every
\* segment but the first dropped
RECURSIVE JoinSegments(_, _)
JoinSegments(segs, k) ==
    IF k > Len(segs)
    THEN <<>>
    ELSE (IF k = 1 THEN segs[k].positions ELSE Tail(segs[k].positions))
             \o JoinSegments(segs, k + 1)

\* C13: the segments cover the path exactly: every segment is non-empty, the
\* last point of a segment is the first point of the next, and the segments
\* joined with each shared point taken once are the path, point by point.
C13_SegmentsCoverPath ==
    SegmentsRendered =>
        LET segs == RenderedSegments
        IN  /\ Len(segs) >= 1
            /\ \A k \in 1..Len(segs) : Len(segs[k].positions) >= 1
            /\ \A k \in 1..(Len(segs) - 1) :
                   segs[k].positions[Len(segs[k].positions)]
                       = segs[k + 1].positions[1]
            /\ JoinSegments(segs, 1) = PathPositions

\* C13 witness: a path of four points, each different from the one before,
\* is shown in three segments of which the middle one has three points.
C13_Witness ==
    /\ SegmentsRendered
    /\ Len(SelectedPath) = 4
    /\ \A i \in 1..3 : SelectedPath[i] # SelectedPath[i + 1]
    /\ Len(RenderedSegments) = 3
    /\ Len(RenderedSegments[2].positions) = 3

\* Path length up to point i
RECURSIVE DistanceAlong(_, _)
DistanceAlong(path, i) ==
    IF i <= 1 THEN 0
    ELSE DistanceAlong(path, i - 1) + Abs(path[i].lat - path[i - 1].lat)

\* The six-band colour table applied to the probability linearly
\* interpolated at distance d between the samples around d
BandColorAt(sd, d) ==
    LET j == CHOOSE j \in 1..Len(sd) :
                 /\ j = Len(sd) \/ d <= sd[j + 1].dist
                 /\ \A h \in 1..(j - 1) : d > sd[h + 1].dist
        lo == sd[j]
        hi == IF j < Len(sd) THEN sd[j + 1] ELSE sd[j]
        den == IF hi.dist > lo.dist THEN hi.dist - lo.dist ELSE 1
        part == IF hi.dist > lo.dist
                THEN (IF d < lo.dist THEN 0 ELSE d - lo.dist)
                ELSE 0
        num == lo.prob * den + (hi.prob - lo.prob) * part
    IN  IF num > 90 * den THEN "#7e22ce"
        ELSE IF num > 70 * den THEN "#ef4444"
        ELSE IF num > 50 * den THEN "#f97316"
        ELSE IF num > 30 * den THEN "#eab308"
        ELSE IF num > 10 * den THEN "#84cc16"
        ELSE "#22c55e"

\* The colour of path point i, recomputed
PointColor(i) ==
    BandColorAt(sampleDistancesOf(SelectedPath,
                                  weatherData[selectedRouteId].points),
                DistanceAlong(SelectedPath, i))

\* Path index of the first position of segment k
RECURSIVE SegmentStart(_, _)
SegmentStart(segs, k) ==
    IF k = 1 THEN 1
    ELSE SegmentStart(segs, k - 1) + Len(segs[k - 1].positions) - 1

\* C14 as claimed: every point listed in a segment has, recomputed, the
\* colour of that segment.
C14_EveryPointHasSegmentColor ==
    SegmentsRendered =>
        LET segs == RenderedSegments
        IN  \A k \in 1..Len(segs) :
                \A m \in 1..Len(segs[k].positions) :
                    PointColor(SegmentStart(segs, k) + m - 1) = segs[k].color

\* C14 amended: every point listed in a segment has, recomputed, the colour
\* of that segment, except the last point of a segment that is followed by
\* another: that point is the first of the next segment and has its colour.
C14_PointColors ==
    SegmentsRendered =>
        LET segs == RenderedSegments
        IN  \A k \in 1..Len(segs) :
                \A m \in 1..Len(segs[k].positions) :
                    PointColor(SegmentStart(segs, k) + m - 1) =
                        IF m = Len(segs[k].positions) /\ k < Len(segs)
                        THEN segs[k + 1].color
                        ELSE segs[k].color

\* C14 witness: two samples at the ends of a four-point path, 0 and 100: the
\* inner points are interpolated and the path is shown in several segments.
C14_Witness ==
    /\ SegmentsRendered
    /\ Len(SelectedPath) = 4
    /\ Len(weatherData[selectedRouteId].points) = 2
    /\ weatherData[selectedRouteId].points[1].rainProbability = 0
    /\ weatherData[selectedRouteId].points[2].rainProbability = 100
    /\ Len(RenderedSegments) >= 3

\* C15: every segment shown for a path of at least two points has at least
\* two points.
C15_SegmentsHaveTwoPoints ==
    (SegmentsRendered /\ Len(SelectedPath) >= 2) =>
        \A k \in 1..Len(RenderedSegments) :
            Len(RenderedSegments[k].positions) >= 2

StartedCall == calls'[Len(calls')]

C17_CacheStep ==
    /\ Len(calls') = Len(calls) + 1 =>
           LET key == StartedCall.call.cacheKey
           IN  /\ 10 * key[1] - 5 <= StartedCall.call.lat
               /\ StartedCall.call.lat < 10 * key[1] + 5
               /\ key \in DOMAIN weatherCache =>
                      IF now - weatherCache[key].timestamp < 300000
                      THEN /\ StartedCall.pc = "done"
                           /\ StartedCall.result =
                                  Fulfilled(weatherCache[key].probability)
                           /\ requests' = requests
                           /\ weatherCache' = weatherCache
                      ELSE /\ StartedCall.pc = "fetching"
                           /\ Len(requests') = Len(requests) + 1
                           /\ requests'[Len(requests')].cacheKey = key
    /\ \A c \in 1..Len(calls) :
           (calls[c].pc = "fetching" /\ calls'[c].outcome = "fetched") =>
               /\ calls[c].call.cacheKey \in DOMAIN weatherCache'
               /\ weatherCache'[calls[c].call.cacheKey] =
                      [probability |-> calls'[c].result.value,
                       timestamp |-> calls[c].call.now]

C18_NeverRejects ==
    \A c \in 1..Len(calls) :
        /\ calls[c].result.state # "rejected"
        /\ calls[c].pc = "done" => calls[c].result.state = "fulfilled"
        /\ calls[c].outcome = "failed" =>
               calls[c].result.state = "fulfilled" /\ calls[c].result.value = 0

\* C18 witness: one call's request failed and the call resolved with 0, while
\* another call fetched 60.
C18_Witness ==
    \E c, d \in 1..Len(calls) :
        /\ calls[c].outcome = "failed"
        /\ calls[c].pc = "done"
        /\ calls[c].result = Fulfilled(0)
        /\ calls[d].outcome = "fetched"
        /\ calls[d].result = Fulfilled(60)

\* C19: loading lasts exactly as long as a search handler runs, every search
\* that was accepted leaves the loading state again, however it ends, and
\* with both points set the search button is then enabled again.
C19_LoadingEnds ==
    /\ [](isLoading <=> pc # "idle")
    /\ []((pc = "idle" /\ startPoint # NoPoint /\ endPoint # NoPoint)
              => canSearch)
    /\ (isLoading ~> ~isLoading)

\* C19 witness: a search whose routing request failed has ended and the
\* button is enabled for the next search.
C19_Witness ==
    /\ ~isLoading
    /\ pc = "idle"
    /\ lastRequestRef > 0
    /\ toast = "Failed to fetch routes. Please try again."
    /\ canSearch

\* The label the threshold table gives probability p
IsLabelOf(label, p) ==
    /\ label \in {"Storm", "Heavy Rain", "Light Rain", "Cloudy", "Clear"}
    /\ label = "Storm" <=> p > 70
    /\ label = "Heavy Rain" <=> (p > 50 /\ p <= 70)
    /\ label = "Light Rain" <=> (p > 20 /\ p <= 50)
    /\ label = "Cloudy" <=> (p > 10 /\ p <= 20)
    /\ label = "Clear" <=> p <= 10

\* C20: the condition of every point of every result is the label of the
\* first matching threshold (> 70 "Storm", > 50 "Heavy Rain", > 20 "Light
\* Rain", > 10 "Cloudy", otherwise "Clear") for that point's own probability;
\* a point defaulted after a failed lookup has probability 0 and is "Clear".
C20_ConditionLabels ==
    \A r \in ResolvedRoutes :
        \A i \in 1..Len(ResultOf(r).points) :
            LET pt == ResultOf(r).points[i]
            IN  /\ IsLabelOf(pt.condition, pt.rainProbability)
                /\ forecasts[r][i].state = "rejected" =>
                       pt.rainProbability = 0 /\ pt.condition = "Clear"

\* C20 witness: a result with a point at 70 ("Heavy Rain"), a point at 71
\* ("Storm") and a point defaulted after a failed lookup.
C20_Witness ==
    \E r \in ResolvedRoutes :
        /\ Len(ResultOf(r).points) = 3
        /\ ResultOf(r).points[1].rainProbability = 70
        /\ ResultOf(r).points[1].condition = "Heavy Rain"
        /\ ResultOf(r).points[2].rainProbability = 71
        /\ ResultOf(r).points[2].condition = "Storm"
        /\ forecasts[r][3] = Rejected
        /\ ResultOf(r).points[3].condition = "Clear"

\* Sum of the point-to-point distances of r's path up to point i
RECURSIVE RunningDistance(_, _)
RunningDistance(r, i) ==
    IF i <= 1 THEN 0
    ELSE RunningDistance(r, i - 1)
             + Abs(fetchedRoutes[r].path[i].lat - fetchedRoutes[r].path[i - 1].lat)

\* The running distance at point i is at least k intervals of
\* distance / (target - 1)
ReachesInterval(r, i, k) ==
    RunningDistance(r, i) * (ClampedTarget(fetchedRoutes[r].distance) - 1)
        >= k * fetchedRoutes[r].distance

\* C21: in the long-path branch the sample after the k-th one (the first
\* point counted as sample 1) is the first later point whose running distance
\* reaches k intervals; only the path's last point may be a sample without
\* reaching its interval, and the sample indices strictly increase, so that
\* no point is emitted twice even when one step crosses several multiples.
C21_ThresholdWalk ==
    \A r \in 1..Len(fetchedRoutes) :
        Len(fetchedRoutes[r].path) > ClampedTarget(fetchedRoutes[r].distance) =>
            LET sp == samplePoints[r]
                n == Len(fetchedRoutes[r].path)
            IN  /\ sp[1] = 1
                /\ sp[Len(sp)] = n
                /\ \A k \in 1..(Len(sp) - 1) :
                       /\ sp[k] < sp[k + 1]
                       /\ \A j \in (sp[k] + 1)..(sp[k + 1] - 1) :
                              ~ReachesInterval(r, j, k)
                       /\ \/ ReachesInterval(r, sp[k + 1], k)
                          \/ k = Len(sp) - 1 /\ sp[k + 1] = n

\* C21 witness: distance 0.2 km, target 3, interval 0.1 km; the first step
\* is 0.2 km long and crosses two multiples at once: point 2 is emitted once,
\* point 3 for the second multiple, and the end point is forced in.
C21_Witness ==
    /\ Len(fetchedRoutes) = 1
    /\ fetchedRoutes[1].distance = 2
    /\ fetchedRoutes[1].path = [j \in 1..5 |-> Point(IF j = 1 THEN 0 ELSE 2, 0)]
    /\ samplePoints[1] = <<1, 2, 3, 5>>

\* The distance-tagged samples of the selected route
RenderedSampleDistances ==
    sampleDistancesOf(SelectedPath, weatherData[selectedRouteId].points)

\* Per point of the selected path: bracketing sample and probability
RenderedWalk ==
    InterpolationWalk(SelectedPath, RenderedSampleDistances, 1, 0, 1, <<>>)

\* lo <= prob <= hi for the fraction prob
FractionWithin(prob, lo, hi) ==
    /\ prob.den > 0
    /\ lo * prob.den <= prob.num
    /\ prob.num <= hi * prob.den

\* C22: the probability used for a path point lies between the probabilities
\* of the two tagged samples that bracket it, hence within the range of the
\* route's sample probabilities and within 0..100; the index of the
\* bracketing sample never decreases along the path and stays within the
\* tagged sample list.
C22_InterpolationBounded ==
    SegmentsRendered =>
        LET sd == RenderedSampleDistances
            walk == RenderedWalk
            probs == Probabilities(weatherData[selectedRouteId])
        IN  /\ Len(walk) = Len(SelectedPath)
            /\ \A i \in 1..Len(walk) :
                   LET idx == walk[i].nextSampleIdx
                       a == sd[idx].prob
                       b == sd[Min(idx + 1, Len(sd))].prob
                   IN  /\ idx \in 1..Len(sd)
                       /\ i > 1 => walk[i - 1].nextSampleIdx <= idx
                       /\ FractionWithin(walk[i].prob, Min(a, b), Max(a, b))
                       /\ FractionWithin(walk[i].prob, 0, 100)
                       /\ \E lo, hi \in 1..Len(probs) :
                              FractionWithin(walk[i].prob, probs[lo], probs[hi])

\* C22 witness: three tagged samples 0, 100, 0 on a four-point path: the
\* second point lies half way between the first two samples (probability
\* 50) and the last point has moved on to the second bracket.
C22_Witness ==
    /\ SegmentsRendered
    /\ Len(SelectedPath) = 4
    /\ Len(RenderedSampleDistances) = 3
    /\ RenderedSampleDistances[1].prob = 0
    /\ RenderedSampleDistances[2].prob = 100
    /\ RenderedWalk[2].prob = [num |-> 100, den |-> 2]
    /\ RenderedWalk[2].nextSampleIdx = 1
    /\ RenderedWalk[4].nextSampleIdx = 2

\* Number of points 2..i of the selected path whose recomputed colour
\* differs from that of the point before
RECURSIVE ColourChanges(_)
ColourChanges(i) ==
    IF i <= 1 THEN 0
    ELSE ColourChanges(i - 1)
             + (IF PointColor(i) # PointColor(i - 1) THEN 1 ELSE 0)

\* C23: the segments are maximal: adjacent segments differ in colour, the
\* point at which a segment is closed has a colour other than the segment's,
\* and there is one segment more than there are colour changes from one path
\* point to the next.
C23_SegmentsMaximal ==
    SegmentsRendered =>
        LET segs == RenderedSegments
        IN  /\ \A k \in 1..(Len(segs) - 1) :
                   /\ segs[k].color # segs[k + 1].color
                   /\ PointColor(SegmentStart(segs, k + 1)) # segs[k].color
            /\ Len(segs) = 1 + ColourChanges(Len(SelectedPath))

\* C23 witness: a four-point path whose colour changes once, at its third
\* point: two segments of three and two points.
C23_Witness ==
    /\ SegmentsRendered
    /\ Len(SelectedPath) = 4
    /\ Len(RenderedSegments) = 2
    /\ Len(RenderedSegments[1].positions) = 3
    /\ Len(RenderedSegments[2].positions) = 2
    /\ PointColor(1) = PointColor(2)
    /\ PointColor(3) = PointColor(4)

\* A step that shows the wait notification
C24_RejectedStep ==
    (toast' = "Please wait before searching again" /\ toast' # toast) =>
        /\ now - lastRequestRef < 2000
        /\ pc' = pc
        /\ forecasts' = forecasts
        /\ fetchedRoutes' = fetchedRoutes
        /\ routes' = routes
        /\ weatherData' = weatherData
        /\ selectedRouteId' = selectedRouteId
        /\ isLoading' = isLoading
        /\ lastRequestRef' = lastRequestRef

\* A step that starts the routing request, or moves the last-accepted time
C24_AcceptedStep ==
    ((pc = "idle" /\ pc' = "fetching") \/ lastRequestRef' # lastRequestRef) =>
        /\ now - lastRequestRef >= 2000
        /\ pc = "idle" /\ pc' = "fetching"
        /\ lastRequestRef' = now
        /\ toast' = toast

\* C24: a search request less than 2000 ms after the last accepted one only
\* shows the wait notification: no routing request, no lookup, routes,
\* weatherData, selectedRouteId, isLoading and the last-accepted time
\* unchanged; a request is accepted only 2000 ms or more after the last
\* accepted one, and its time becomes the last-accepted time.
C24_RateLimit == [][C24_RejectedStep /\ C24_AcceptedStep]_vars

\* C24 witness: a request 1000 ms after the first accepted search was
\* rejected, and a request exactly 2000 ms after it has been accepted.
C24_Witness ==
    /\ toast = "Please wait before searching again"
    /\ pc = "fetching"
    /\ lastRequestRef = 4000
    /\ now = 4000

\* A step that changes the start or the end point is one of the three
\* steps of the click cycle
C25_ClickStep ==
    (startPoint' # startPoint \/ endPoint' # endPoint) =>
        \/ /\ startPoint = NoPoint
           /\ startPoint' # NoPoint
           /\ endPoint' = endPoint
           /\ routes' = routes
        \/ /\ startPoint # NoPoint /\ endPoint = NoPoint
           /\ startPoint' = startPoint
           /\ endPoint' # NoPoint
           /\ routes' = routes
        \/ /\ startPoint # NoPoint /\ endPoint # NoPoint
           /\ startPoint' # NoPoint
           /\ endPoint' = NoPoint
           /\ routes' = <<>>

\* With a point unset no step starts a search or answers a search request
C25_NoSearchStep ==
    (startPoint = NoPoint \/ endPoint = NoPoint) =>
        /\ ~(pc = "idle" /\ pc' = "fetching")
        /\ lastRequestRef' = lastRequestRef
        /\ toast' # toast => toast' # "Please wait before searching again"
        /\ ~canSearch

\* C25: map clicks set the start, then the end, then reset (new start, end
\* cleared, route list cleared); an end point is set only if a start point
\* is set; a search request with a point unset does nothing.
C25_ClickCycle ==
    /\ [](endPoint # NoPoint => startPoint # NoPoint)
    /\ [][C25_ClickStep /\ C25_NoSearchStep]_vars

\* C25 witness: after a search that found two routes a third click has made
\* the clicked position the start and cleared end point and route list.
C25_Witness ==
    /\ startPoint = Point(1, 1)
    /\ endPoint = NoPoint
    /\ routes = <<>>
    /\ DOMAIN weatherData = {RouteId(1), RouteId(2)}
    /\ pc = "idle"

\* ---------------------------------------------------------------- C26

\* The ids of the routes currently in routes
RouteIdsPresent == {routes[r].id : r \in 1..Len(routes)}

\* C26: in every reachable state selectedRouteId is null or the id of a route
\* that is currently in routes.
C26_SelectionIsPresentRoute ==
    selectedRouteId = Null \/ selectedRouteId \in RouteIdsPresent

\* ---------------------------------------------------------------- C27

\* A search of src/App.tsx that returned routes completes while the route list
\* is on display
AppSelectsAutomatically ==
    /\ pc = "analysing" /\ pc' = "idle"
    /\ Len(fetchedRoutes) > 0
    /\ routes' # <<>>

\* C27: when a search of App.tsx completes, the route it selects automatically
\* is the route RouteList shows first and badges as BEST ROUTE (first in
\* ascending-score order, ties kept in routing order), equal scores included.
C27_SelectedIsShownFirst ==
    [][AppSelectsAutomatically => isBest(routes', weatherData', selectedRouteId')]_vars

\* ---------------------------------------------------------------- C28

\* C28: in every reachable state routes is empty while the end point is unset:
\* what a reset click has cleared stays cleared until a new search is started,
\* also when a search started before the click completes after it.
C28_NoRoutesWithoutEndPoint == endPoint = NoPoint => routes = <<>>

\* ---------------------------------------------------------------- C29

\* Some call of this key has had its request fail
FailedBefore(key) ==
    \E c \in 1..Len(calls) :
        calls[c].outcome = "failed" /\ calls[c].call.cacheKey = key

C29_FailStep ==
    /\ \A c \in 1..Len(calls) :
           (calls[c].pc = "fetching" /\ calls'[c].outcome = "failed") =>
               /\ weatherCache' = weatherCache
               /\ requests' = requests
    /\ (Len(calls') = Len(calls) + 1
            /\ FailedBefore(StartedCall.call.cacheKey)
            /\ ~(/\ StartedCall.call.cacheKey \in DOMAIN weatherCache
                 /\ now - weatherCache[StartedCall.call.cacheKey].timestamp
                        < 300000)) =>
           /\ StartedCall.pc = "fetching"
           /\ Len(requests') = Len(requests) + 1
           /\ requests'[Len(requests')] =
                  [cacheKey |-> StartedCall.call.cacheKey, time |-> now]

\* C29: the step in which a call's request fails leaves the cache as it was
\* (nothing is stored, removed or refreshed), and a later call for that key
\* that finds no entry younger than 5 minutes issues a new request.
C29_FailureLeavesCache == [][C29_FailStep]_vars

\* C29 witness: the first call fetched 60; a whole time-to-live later the
\* second call of that key issued a request, which failed, and the entry still
\* holds 60 with the first call's time; the third call of that key issued a
\* request again.
C29_Witness ==
    /\ Len(calls) = 3
    /\ Len(requests) = 3
    /\ calls[1].outcome = "fetched"
    /\ calls[2].outcome = "failed" /\ calls[2].result = Fulfilled(0)
    /\ calls[2].call.cacheKey = calls[1].call.cacheKey
    /\ calls[3].call.cacheKey = calls[1].call.cacheKey
    /\ calls[3].pc = "fetching"
    /\ requests[3].cacheKey = calls[1].call.cacheKey
    /\ weatherCache[calls[1].call.cacheKey] =
           [probability |-> 60, timestamp |-> calls[1].call.now]
    /\ calls[2].call.now = calls[1].call.now + 300000

\* ---------------------------------------------------------------- C30

\* C30: of every result, built from one or more sample probabilities in
\* 0..100, the average is at most the maximum, the score lies between 0 and
\* the maximum, the maximum is at most 100, and the recommendation is
\* "Might drizzle." only when 20 < average <= maximum <= 40. (The score is
\* kept in tenths, so score <= maximum reads score <= 10 x maximum.)
C30_AggregateBounds ==
    \A r \in ResolvedRoutes :
        LET rw == ResultOf(r)
        IN  /\ Len(rw.points) >= 1
            /\ \A i \in 1..Len(rw.points) : rw.points[i].rainProbability \in 0..100
            /\ rw.averageRainChance <= rw.maxRainChance
            /\ 0 <= rw.score
            /\ rw.score <= 10 * rw.maxRainChance
            /\ rw.maxRainChance <= 100
            /\ rw.recommendation = "Might drizzle." =>
                   /\ 20 < rw.averageRainChance
                   /\ rw.averageRainChance <= rw.maxRainChance
                   /\ rw.maxRainChance <= 40

\* C30 witness: the result for the samples 40, 21, 20 (the maximum first):
\* average 27, maximum 40, score 34.8, "Might drizzle.".
C30_Witness ==
    \E r \in ResolvedRoutes :
        /\ Probabilities(ResultOf(r)) = <<40, 21, 20>>
        /\ ResultOf(r).averageRainChance = 27
        /\ ResultOf(r).maxRainChance = 40
        /\ ResultOf(r).score = 348
        /\ ResultOf(r).recommendation = "Might drizzle."

====
